---- MODULE Spec2Model ----
(***************************************************************************)
(* Denial Reason Analyzer (src/denial_trending.py).                        *)
(*                                                                         *)
(* A Python string is modelled as a sequence of one-character strings, so  *)
(* that split, strip, upper, startswith and the two regular expressions    *)
(* are computed character by character.  A pandas missing cell is the      *)
(* value NaN.  The script is a straight line: read the two files, clean    *)
(* every row, normalize the prefix, resolve the description, group and     *)
(* sort, and build the pie chart data.                                     *)
(***************************************************************************)
EXTENDS Integers, Sequences, FiniteSets, TLC

VARIABLES pc, df, cleaned, normalized, co_dict, final_description,
          final_summary, final_df, code_in, code_out, code_out2

vars == <<pc, df, cleaned, normalized, co_dict, final_description,
          final_summary, final_df, code_in, code_out, code_out2>>

\* ------------------------------------------------------------------ bounds
\* rows of the two uploaded files together
MaxRows == 3
\* reason codes in one cell (single-row cleaning specification)
MaxCodes == 3
\* descriptions in one cell (single-row cleaning specification)
MaxDescs == 3
\* characters of a code handed to normalize_prefix on its own
MaxCodeLen == 4
\* groups of a summary handed to the pie chart on its own
MaxGroups == 12

\* ------------------------------------------------------- values and strings
\* pandas NaN, an empty spreadsheet cell: no string, whose elements are single
\* characters, equals it
NaN == <<"NaN">>

\* the value a column holds before the script has computed it
None == <<"None">>

\* the ASCII control characters 0x0b (vertical tab) and 0x1c-0x1f (file, group,
\* record and unit separator), written as themselves
VT == ""
FS == ""
GS == ""
RS == ""
US == ""

\* characters str.strip() removes: all ASCII whitespace (Python also strips
\* 0x85, 0xa0 and the other Unicode spaces, characters a string of this
\* module cannot hold)
Whitespace == {" ", "\t", "\n", VT, "\f", "\r", FS, GS, RS, US}

DigitChars == <<"0", "1", "2", "3", "4", "5", "6", "7", "8", "9">>

Digits == {DigitChars[i] : i \in 1..Len(DigitChars)}

UpperLetters ==
  <<"A", "B", "C", "D", "E", "F", "G", "H", "I", "J", "K", "L", "M",
    "N", "O", "P", "Q", "R", "S", "T", "U", "V", "W", "X", "Y", "Z">>

LowerLetters ==
  <<"a", "b", "c", "d", "e", "f", "g", "h", "i", "j", "k", "l", "m",
    "n", "o", "p", "q", "r", "s", "t", "u", "v", "w", "x", "y", "z">>

\* the characters of the model, in code point order
Alphabet ==
  <<"\t", "\n", VT, "\f", "\r", FS, GS, RS, US, " ", ",">> \o DigitChars \o <<";">>
    \o UpperLetters \o LowerLetters

\* code point order of the characters
Ord(ch) == CHOOSE i \in 1..Len(Alphabet) : Alphabet[i] = ch

\* str.upper() on one character
UpperChar(ch) ==
  IF \E i \in 1..Len(LowerLetters) : LowerLetters[i] = ch
  THEN UpperLetters[CHOOSE i \in 1..Len(LowerLetters) : LowerLetters[i] = ch]
  ELSE ch

\* str.upper()
Upper(s) == [i \in 1..Len(s) |-> UpperChar(s[i])]

RECURSIVE LStrip(_)
LStrip(s) == IF s # <<>> /\ Head(s) \in Whitespace THEN LStrip(Tail(s)) ELSE s

RECURSIVE RStrip(_)
RStrip(s) ==
  IF s # <<>> /\ s[Len(s)] \in Whitespace THEN RStrip(SubSeq(s, 1, Len(s) - 1)) ELSE s

\* str.strip()
Strip(s) == RStrip(LStrip(s))

\* str.startswith(p)
StartsWith(s, p) == Len(s) >= Len(p) /\ SubSeq(s, 1, Len(p)) = p

\* str.replace(old, new) for a one-character old; new is a string
Replace(s, old, new) ==
  LET RECURSIVE R(_)
      R(t) == IF t = <<>> THEN <<>>
              ELSE (IF Head(t) = old THEN new ELSE <<Head(t)>>) \o R(Tail(t))
  IN R(s)

\* str.split(sep) for a one-character sep: always at least one piece
Split(s, sep) ==
  LET RECURSIVE S(_, _)
      S(t, cur) == IF t = <<>> THEN <<cur>>
                   ELSE IF Head(t) = sep THEN <<cur>> \o S(Tail(t), <<>>)
                   ELSE S(Tail(t), Append(cur, Head(t)))
  IN S(s, <<>>)

\* str(value) of a cell: a missing cell prints as "nan"
Str(cell) == IF cell = NaN THEN <<"n", "a", "n">> ELSE cell

\* x in list
InSeq(x, list) == \E i \in 1..Len(list) : list[i] = x

\* list.index(x), 0-based, for x in list
Index(list, x) == (CHOOSE i \in 1..Len(list) : list[i] = x /\ \A j \in 1..(i-1) : list[j] # x) - 1

\* ------------------------------------------------------------ code literals
MISSING == <<"M", "I", "S", "S", "I", "N", "G">>
CO109 == <<"C", "O", "1", "0", "9">>
PR109 == <<"P", "R", "1", "0", "9">>
CO96 == <<"C", "O", "9", "6">>
OA97 == <<"O", "A", "9", "7">>
CO45 == <<"C", "O", "4", "5">>
PR45 == <<"P", "R", "4", "5">>
PR94 == <<"P", "R", "9", "4">>
CO94 == <<"C", "O", "9", "4">>
OA94 == <<"O", "A", "9", "4">>
PR1 == <<"P", "R", "1">>
PR2 == <<"P", "R", "2">>
PR3 == <<"P", "R", "3">>
PR100 == <<"P", "R", "1", "0", "0">>
CO253 == <<"C", "O", "2", "5", "3">>
NAN == <<"N", "A", "N">>

exclude_trivial == {PR1, PR2, PR3, PR100, CO253}
exclude_secondary == {CO45, OA94, PR94, CO94}

\* the prefixes tried with PR ahead of CO
prefix_order_pr_first == << <<"P", "R">>, <<"C", "O">>, <<"P", "I">>, <<"O", "A">> >>

\* line 42
prefix_order == << <<"C", "O">>, <<"P", "R">>, <<"P", "I">>, <<"O", "A">> >>

\* ------------------------------------------------------- clean_reason_code
\* line 21: the code cell as a list of pieces
SplitCodes(cell) == Split(Replace(Replace(Str(cell), ";", <<",">>), " ", <<>>), ",")

\* line 22: the description cell as a list of pieces
SplitDescs(cell) == Split(Str(cell), ",")

\* a piece is kept when it is not the text nan, blank or not
KeepCode_keep_blank(c) == Upper(Strip(c)) # NAN

\* line 23: a piece is kept when it is not blank and not the text nan
KeepCode(c) == Strip(c) # <<>> /\ Upper(Strip(c)) # NAN

\* line 23: the stripped pieces that are kept
TokenCodes(cell) ==
  LET raw == SplitCodes(cell)
      kept == SelectSeq(raw, KeepCode)
  IN [i \in 1..Len(kept) |-> Strip(kept[i])]

\* line 29
NotTrivial(c) == c \notin exclude_trivial
DropTrivial(codes) == SelectSeq(codes, NotTrivial)

\* line 38
NotSecondary(c) == c \notin exclude_secondary

\* lines 42-46: the loop over the prefixes; <<>> stands for Python's None
RECURSIVE FirstByPrefix(_, _)
FirstByPrefix(codes_to_consider, prefixes) ==
  IF prefixes = <<>> THEN <<>>
  ELSE LET prefix == Head(prefixes)
           HasPrefix(c) == StartsWith(c, prefix)
           found == SelectSeq(codes_to_consider, HasPrefix)
       IN IF found # <<>> THEN found[1]
          ELSE FirstByPrefix(codes_to_consider, Tail(prefixes))

\* the branch without the fall back to the unfiltered list
SelectByPrefix_no_fallback(codes) ==
  LET codes_to_consider == SelectSeq(codes, NotSecondary)
      selected_code == FirstByPrefix(codes_to_consider, prefix_order)
  IN IF selected_code # <<>> THEN selected_code
     ELSE IF codes_to_consider # <<>> THEN codes_to_consider[1] ELSE MISSING

\* lines 37-49: the branch taken when no priority code is present
SelectByPrefix(codes) ==
  LET filtered == SelectSeq(codes, NotSecondary)
      codes_to_consider == IF filtered # <<>> THEN filtered ELSE codes
      selected_code == FirstByPrefix(codes_to_consider, prefix_order)
  IN IF selected_code # <<>> THEN selected_code
     ELSE IF codes_to_consider # <<>> THEN codes_to_consider[1] ELSE MISSING

\* lines 32-49: selected_code from the codes left after the trivial ones
SelectCode(codes) ==
  IF InSeq(CO109, codes) \/ InSeq(PR109, codes) THEN CO109
  ELSE IF InSeq(CO96, codes) /\ InSeq(OA97, codes) THEN CO96
  ELSE SelectByPrefix(codes)

\* lines 52-55: desc_text
SelectDesc(selected_code, codes, descs) ==
  IF InSeq(selected_code, codes) /\ Len(descs) >= Index(codes, selected_code) + 1
  THEN Strip(descs[Index(codes, selected_code) + 1])
  ELSE IF descs # <<>> THEN Strip(descs[1]) ELSE MISSING

\* lines 20-57
clean_reason_code(row) ==
  LET tokens == TokenCodes(row.codes)
      descs == SplitDescs(row.descs)
      codes == DropTrivial(tokens)
      selected_code == SelectCode(codes)
  IN IF tokens = <<>> THEN [code |-> MISSING, desc |-> MISSING]
     ELSE [code |-> selected_code,
           desc |-> SelectDesc(selected_code, codes, descs)]

\* lines 60-61: Series.fillna("MISSING")
FillNa(v) == IF v = NaN THEN MISSING ELSE v

\* -------------------------------------------------------- normalize_prefix
\* the alternation (PR|PI|PIB|OA), in the order the regex engine tries it
prefix_alternation == << <<"P", "R">>, <<"P", "I">>, <<"P", "I", "B">>, <<"O", "A">> >>

\* line 68: re.match(r'^(PR|PI|PIB|OA)\d+', code); backtracking tries every
\* alternative until one is followed by a digit
ReMatch(code) ==
  \E i \in 1..Len(prefix_alternation) :
     /\ StartsWith(code, prefix_alternation[i])
     /\ Len(code) > Len(prefix_alternation[i])
     /\ code[Len(prefix_alternation[i]) + 1] \in Digits

\* line 69: re.sub(r'^(PR|PI|PIB|OA)', 'CO', code); the first alternative that
\* matches at the start is the one replaced
ReSub(code) ==
  LET hits == {i \in 1..Len(prefix_alternation) : StartsWith(code, prefix_alternation[i])}
      first == CHOOSE i \in hits : \A j \in hits : i <= j
  IN IF hits = {} THEN code
     ELSE <<"C", "O">> \o SubSeq(code, Len(prefix_alternation[first]) + 1, Len(code))

\* the pattern tried before the code is upper-cased
normalize_prefix_match_first(code) ==
  IF code = NaN THEN code
  ELSE LET c == Strip(code)
       IN IF ReMatch(c) THEN Upper(ReSub(c)) ELSE Upper(c)

\* lines 64-70
normalize_prefix(code) ==
  IF code = NaN THEN code
  ELSE LET c == Upper(Strip(code))
       IN IF ReMatch(c) THEN ReSub(c) ELSE c

\* ------------------------------------------------- description resolution
\* co_dict without drop_duplicates: dict() keeps the last row of every code
CoDict_keep_last(cl) ==
  LET rows == {i \in 1..Len(cl) : StartsWith(cl[i].code, <<"C", "O">>)}
      Last(c) == CHOOSE i \in rows : cl[i].code = c /\ \A j \in rows : cl[j].code = c => j <= i
  IN [c \in {cl[i].code : i \in rows} |-> cl[Last(c)].desc]

\* lines 75-77: co_dict, from the first row of every CO-prefixed cleaned code
CoDict(cl) ==
  LET rows == {i \in 1..Len(cl) : StartsWith(cl[i].code, <<"C", "O">>)}
      First(c) == CHOOSE i \in rows : cl[i].code = c /\ \A j \in rows : cl[j].code = c => i <= j
  IN [c \in {cl[i].code : i \in rows} |-> cl[First(c)].desc]

\* lines 79-84
get_final_description(code, desc, dict) ==
  IF code \in DOMAIN dict THEN dict[code] ELSE desc

\* ------------------------------------------------------ group and aggregate
\* s < t in the order Python compares strings
RECURSIVE StrLess(_, _)
StrLess(s, t) ==
  IF t = <<>> THEN FALSE
  ELSE IF s = <<>> THEN TRUE
  ELSE IF Head(s) # Head(t) THEN Ord(Head(s)) < Ord(Head(t))
  ELSE StrLess(Tail(s), Tail(t))

\* order of the group keys (Normalized Code, Final Description)
KeyLess(k, l) == StrLess(k[1], l[1]) \/ (k[1] = l[1] /\ StrLess(k[2], l[2]))

\* the elements of a finite set of keys, in increasing order
RECURSIVE SortedKeys(_)
SortedKeys(ks) ==
  IF ks = {} THEN <<>>
  ELSE LET least == CHOOSE k \in ks : \A l \in ks \ {k} : KeyLess(k, l)
       IN <<least>> \o SortedKeys(ks \ {least})

\* Series.nunique(): the distinct values of a group, NaN not counted
NUnique(values) == Cardinality(values \ {NaN})

\* groupby(...)['Visit #'].count(): the filled visit cells of a group, repeats
\* included
GroupNUnique_count_rows(codes, descs, visits) ==
  LET idx == 1..Len(codes)
      keys == SortedKeys({<<codes[i], descs[i]>> : i \in idx})
  IN [g \in 1..Len(keys) |->
        [code |-> keys[g][1], desc |-> keys[g][2],
         claims |-> Cardinality({j \in idx : <<codes[j], descs[j]>> = keys[g]
                                              /\ visits[j] # NaN})]]

\* lines 90-93: groupby(...)['Visit #'].nunique().reset_index()
GroupNUnique(codes, descs, visits) ==
  LET idx == 1..Len(codes)
      keys == SortedKeys({<<codes[i], descs[i]>> : i \in idx})
  IN [g \in 1..Len(keys) |->
        [code |-> keys[g][1], desc |-> keys[g][2],
         claims |-> NUnique({visits[i] : i \in {j \in idx : <<codes[j], descs[j]>> = keys[g]}})]]

\* line 94: sort_values(by='Distinct Claims', ascending=False) with the default
\* kind, which is not stable: every order of the rows in which the counts do
\* not increase is a possible result
RECURSIVE SortValues(_)
SortValues(t) ==
  IF t = <<>> THEN {<<>>}
  ELSE LET largest == {i \in 1..Len(t) : \A j \in 1..Len(t) : t[j].claims <= t[i].claims}
           Without(i) == SubSeq(t, 1, i - 1) \o SubSeq(t, i + 1, Len(t))
       IN UNION {{<<t[i]>> \o rest : rest \in SortValues(Without(i))} : i \in largest}

\* ---------------------------------------------------------------- pie chart
\* lines 113-114: the number of slices kept
TopN == 10

Others == <<"O", "t", "h", "e", "r", "s">>
AllRemaining ==
  <<"A", "l", "l", " ", "r", "e", "m", "a", "i", "n", "i", "n", "g", " ",
    "r", "e", "a", "s", "o", "n", "s">>

RECURSIVE SumClaims(_)
SumClaims(t) == IF t = <<>> THEN 0 ELSE Head(t).claims + SumClaims(Tail(t))

\* line 113: final_summary.head(10)
top10(summary) == SubSeq(summary, 1, IF Len(summary) < TopN THEN Len(summary) ELSE TopN)

\* the sum taken from one row too far
others_sum_off_by_one(summary) == SumClaims(SubSeq(summary, TopN + 2, Len(summary)))

\* line 114: final_summary['Distinct Claims'][10:].sum()
others_sum(summary) == SumClaims(SubSeq(summary, TopN + 1, Len(summary)))

\* lines 116-124: final_df
PieData(summary) ==
  IF others_sum(summary) > 0
  THEN top10(summary) \o
         <<[code |-> Others, desc |-> AllRemaining, claims |-> others_sum(summary)]>>
  ELSE top10(summary)

\* ------------------------------------------------------------------- inputs
\* ','.join(parts) for a one-character or longer separator
RECURSIVE Join(_, _)
Join(parts, sep) ==
  IF parts = <<>> THEN <<>>
  ELSE IF Len(parts) = 1 THEN parts[1]
  ELSE parts[1] \o sep \o Join(Tail(parts), sep)

\* all sequences over S of length lo..hi
SeqsOf(S, lo, hi) == UNION {[1..n -> S] : n \in lo..hi}

\* rows of the uploaded files: one code, one description, a visit identifier
FileCodes == {PR45, CO45, OA97}
FileDescs == {<<"x">>, <<"y">>}
Visits == {<<"1">>, <<"2">>, NaN}
FileRows == [codes : FileCodes, descs : FileDescs, visit : Visits]

\* codes written into one 'Reason Codes' cell
CellCodes ==
  {CO109, PR109, CO96, OA97, CO45, PR94, PR1, PR45,
   <<"P", "I", "5">>, <<"M", "A", "1">>, <<"n", "a", "n">>, <<>>}

\* the ways the codes of a cell are delimited
CellSeps == {<<",">>, <<";", " ">>}

\* the i-th description written into one 'Reason Code Descriptions' cell
CellDesc(i) == <<" ", "d", DigitChars[i + 1]>>

\* a 'Reason Codes' cell: empty, or delimited codes
CodeCells ==
  {NaN} \cup {Join(cs, sep) : cs \in SeqsOf(CellCodes, 1, MaxCodes), sep \in CellSeps}

\* a 'Reason Code Descriptions' cell: empty, or comma separated descriptions
DescCells ==
  {NaN} \cup {Join([i \in 1..n |-> CellDesc(i)], <<",">>) : n \in 0..MaxDescs}

\* rows cleaned on their own
CellRows == [codes : CodeCells, descs : DescCells, visit : {<<"1">>}]

\* characters of the codes normalized on their own
CodeChars == {"P", "R", "I", "B", "O", "A", "C", "1", "a", " ", "\r"}
CodeStrings == SeqsOf(CodeChars, 0, MaxCodeLen) \cup {NaN}

\* the code of the g-th group of a summary: CO01, CO02, ...
GroupCode(g) == <<"C", "O", DigitChars[(g \div 10) + 1], DigitChars[(g % 10) + 1]>>

\* groupby results handed to sort_values: n groups in key order, the g-th
\* with g - 1 or g distinct claims, so that equal counts occur next to each
\* other and the first group may count no claim
GroupTables ==
  UNION {{[g \in 1..n |-> [code |-> GroupCode(g), desc |-> <<"d">>, claims |-> g - 1 + c[g]]] :
            c \in [1..n -> {0, 1}]} : n \in 1..MaxGroups}

\* ------------------------------------------------------------------ actions
Blank ==
  /\ df = <<>> /\ cleaned = None /\ normalized = None /\ co_dict = None
  /\ final_description = None /\ final_summary = None /\ final_df = None
  /\ code_in = None /\ code_out = None /\ code_out2 = None

Init == pc = "upload" /\ Blank

\* lines 13-16: both files are uploaded, read and concatenated; together they
\* hold at least one row (line 59 has no two columns to assign on an empty table)
ReadExcel ==
  /\ pc = "upload"
  /\ \E n \in 1..MaxRows : \E t \in [1..n -> FileRows] : \E k \in 0..n :
        LET df1 == SubSeq(t, 1, k)
            df2 == SubSeq(t, k + 1, n)
        IN df' = df1 \o df2
  /\ pc' = "clean"
  /\ UNCHANGED <<cleaned, normalized, co_dict, final_description,
                 final_summary, final_df, code_in, code_out, code_out2>>

\* lines 59-61: df.apply(clean_reason_code, axis=1), then fillna on both columns
CleanRows ==
  /\ pc = "clean"
  /\ cleaned' = [i \in 1..Len(df) |->
                   [code |-> FillNa(clean_reason_code(df[i]).code),
                    desc |-> FillNa(clean_reason_code(df[i]).desc)]]
  /\ pc' = "normalize"
  /\ UNCHANGED <<df, normalized, co_dict, final_description,
                 final_summary, final_df, code_in, code_out, code_out2>>

\* line 72
NormalizeCodes ==
  /\ pc = "normalize"
  /\ normalized' = [i \in 1..Len(df) |-> normalize_prefix(cleaned[i].code)]
  /\ pc' = "map"
  /\ UNCHANGED <<df, cleaned, co_dict, final_description,
                 final_summary, final_df, code_in, code_out, code_out2>>

\* lines 75-86
MapDescriptions ==
  /\ pc = "map"
  /\ co_dict' = CoDict(cleaned)
  /\ final_description' =
       [i \in 1..Len(df) |->
          get_final_description(normalized[i], cleaned[i].desc, CoDict(cleaned))]
  /\ pc' = "group"
  /\ UNCHANGED <<df, cleaned, normalized, final_summary, final_df,
                 code_in, code_out, code_out2>>

\* lines 89-95
GroupAggregate ==
  /\ pc = "group"
  /\ final_summary' \in
       SortValues(GroupNUnique(normalized, final_description,
                               [i \in 1..Len(df) |-> df[i].visit]))
  /\ pc' = "pie"
  /\ UNCHANGED <<df, cleaned, normalized, co_dict, final_description,
                 final_df, code_in, code_out, code_out2>>

\* lines 113-124
PieChart ==
  /\ pc = "pie"
  /\ final_df' = PieData(final_summary)
  /\ pc' = "done"
  /\ UNCHANGED <<df, cleaned, normalized, co_dict, final_description,
                 final_summary, code_in, code_out, code_out2>>

Next ==
  \/ ReadExcel
  \/ CleanRows
  \/ NormalizeCodes
  \/ MapDescriptions
  \/ GroupAggregate
  \/ PieChart

\* the script, from the upload to the pie chart
Spec == Init /\ [][Next]_vars

\* clean_reason_code applied to one row
InitClean ==
  /\ pc = "clean"
  /\ df \in {<<r>> : r \in CellRows}
  /\ cleaned = None /\ normalized = None /\ co_dict = None
  /\ final_description = None /\ final_summary = None /\ final_df = None
  /\ code_in = None /\ code_out = None /\ code_out2 = None

NextClean == CleanRows

SpecClean == InitClean /\ [][NextClean]_vars

\* normalize_prefix applied to one code, and to its own result
InitNorm ==
  /\ pc = "norm"
  /\ code_in \in CodeStrings
  /\ df = <<>> /\ cleaned = None /\ normalized = None /\ co_dict = None
  /\ final_description = None /\ final_summary = None /\ final_df = None
  /\ code_out = None /\ code_out2 = None

NormalizeOnce ==
  /\ pc = "norm"
  /\ code_out' = normalize_prefix(code_in)
  /\ pc' = "norm2"
  /\ UNCHANGED <<df, cleaned, normalized, co_dict, final_description,
                 final_summary, final_df, code_in, code_out2>>

NormalizeAgain ==
  /\ pc = "norm2"
  /\ code_out2' = normalize_prefix(code_out)
  /\ pc' = "normdone"
  /\ UNCHANGED <<df, cleaned, normalized, co_dict, final_description,
                 final_summary, final_df, code_in, code_out>>

NextNorm == NormalizeOnce \/ NormalizeAgain

SpecNorm == InitNorm /\ [][NextNorm]_vars

\* the pie chart data of one summary
InitPie ==
  /\ pc = "pie"
  /\ \E t \in GroupTables : final_summary \in SortValues(t)
  /\ df = <<>> /\ cleaned = None /\ normalized = None /\ co_dict = None
  /\ final_description = None /\ final_df = None
  /\ code_in = None /\ code_out = None /\ code_out2 = None

NextPie == PieChart

SpecPie == InitPie /\ [][NextPie]_vars

\* =================================================================== claims
\* the elements of a sequence
Range(q) == {q[i] : i \in 1..Len(q)}

\* the first element of list l that starts with p, for a list that has one
FirstStarting(l, p) ==
  l[CHOOSE i \in 1..Len(l) :
      StartsWith(l[i], p) /\ \A j \in 1..(i - 1) : ~StartsWith(l[j], p)]

AnyStarting(l, p) == \E c \in Range(l) : StartsWith(c, p)

\* the row cleaned by the single-row specification, and its result
TheRow == df[1]
TheResult == cleaned[1]
RowCleaned == pc = "normalize" /\ Len(df) = 1

\* the code list of a cell as the priority procedure reads it: the codes of
\* the cell (blank pieces and the text nan of an empty cell are no codes),
\* without the trivial ones
CodeList(cell) ==
  LET l == TokenCodes(cell)
      keep == {i \in 1..Len(l) : l[i] \notin {PR1, PR2, PR3, PR100, CO253}}
      Nth(k) == CHOOSE i \in keep : Cardinality({j \in keep : j < i}) = k - 1
  IN [k \in 1..Cardinality(keep) |-> l[Nth(k)]]

\* the priority procedure of the reason-code selector
PriorityChoice(l) ==
  IF CO109 \in Range(l) \/ PR109 \in Range(l) THEN CO109
  ELSE IF {CO96, OA97} \subseteq Range(l) THEN CO96
  ELSE LET rest == {i \in 1..Len(l) : l[i] \notin {CO45, OA94, PR94, CO94}}
           m == IF rest = {} THEN l
                ELSE [k \in 1..Cardinality(rest) |->
                        l[CHOOSE i \in rest : Cardinality({j \in rest : j < i}) = k - 1]]
       IN CASE AnyStarting(m, <<"C", "O">>) -> FirstStarting(m, <<"C", "O">>)
            [] ~AnyStarting(m, <<"C", "O">>) /\ AnyStarting(m, <<"P", "R">>) ->
                 FirstStarting(m, <<"P", "R">>)
            [] ~AnyStarting(m, <<"C", "O">>) /\ ~AnyStarting(m, <<"P", "R">>)
                 /\ AnyStarting(m, <<"P", "I">>) -> FirstStarting(m, <<"P", "I">>)
            [] ~AnyStarting(m, <<"C", "O">>) /\ ~AnyStarting(m, <<"P", "R">>)
                 /\ ~AnyStarting(m, <<"P", "I">>) /\ AnyStarting(m, <<"O", "A">>) ->
                 FirstStarting(m, <<"O", "A">>)
            [] OTHER -> IF m # <<>> THEN m[1] ELSE MISSING

\* C1: for every row the selected code is the result of the priority procedure
\* on the row's code list (CO109/PR109 first, then CO96 with OA97, then the
\* prefix order CO, PR, PI, OA on the list without the secondary codes, or on
\* the whole list when nothing else is left, then the first code, then
\* MISSING); "CO109,PR45" gives CO109 and "CO96,OA97" gives CO96.
C1_PriorityProcedure ==
  RowCleaned =>
    /\ TheResult.code = PriorityChoice(CodeList(TheRow.codes))
    /\ TheRow.codes = Join(<<CO109, PR45>>, <<",">>) => TheResult.code = CO109
    /\ TheRow.codes = Join(<<CO96, OA97>>, <<",">>) => TheResult.code = CO96

\* a row of two codes none of them a priority or secondary code, where the PR
\* code comes first and the CO code is selected
C1_Witness ==
  /\ RowCleaned
  /\ TheRow.codes = Join(<<PR45, CO96>>, <<",">>)
  /\ TheResult.code = CO96

\* C2 as stated: the row "PR94,CO45" selects PR94.
C2_SelectsPR94 ==
  (RowCleaned /\ TheRow.codes = Join(<<PR94, CO45>>, <<",">>)) => TheResult.code = PR94

\* C2, amended: the row "PR94,CO45", whose codes are all secondary codes so that
\* the selector falls back to the whole list, selects CO45, the first CO code.
C2_SelectsCO45 ==
  (RowCleaned /\ TheRow.codes = Join(<<PR94, CO45>>, <<",">>)) => TheResult.code = CO45

\* the row "PR94,CO45" cleaned, with CO45 selected
C2_Witness ==
  /\ RowCleaned
  /\ TheRow.codes = Join(<<PR94, CO45>>, <<",">>)
  /\ TheResult.code = CO45

\* C3: the selected description is the one at the position of the selected code
\* in the row's code list as it is before the trivial codes are excluded; only
\* when the code is not in that list, or the row has no description at that
\* position, is it the first description or MISSING.
C3_DescriptionAtOriginalPosition ==
  RowCleaned =>
    LET original == TokenCodes(TheRow.codes)
        descs == SplitDescs(TheRow.descs)
        at == CHOOSE i \in 1..Len(original) :
                original[i] = TheResult.code
                /\ \A j \in 1..(i - 1) : original[j] # TheResult.code
    IN IF TheResult.code \in Range(original) /\ at <= Len(descs)
       THEN TheResult.desc = Strip(descs[at])
       ELSE TheResult.desc \in {Strip(descs[1]), MISSING}

\* C6: the selected code is never the empty string; it is a piece of the row's
\* own code cell, or MISSING, or CO109, or CO96.
C6_SelectedCodeNeverEmpty ==
  RowCleaned =>
    /\ TheResult.code # <<>>
    /\ \/ TheResult.code \in {Strip(c) : c \in Range(SplitCodes(TheRow.codes))}
       \/ TheResult.code \in {MISSING, CO109, CO96}

\* a cell with a blank piece and no code with a known prefix: the code selected
\* is the remaining piece
C6_Witness ==
  /\ RowCleaned
  /\ <<>> \in Range(SplitCodes(TheRow.codes))
  /\ TheResult.code = <<"M", "A", "1">>

\* C7: a row with no usable reason code gets the code MISSING, and a row whose
\* description cell is absent (empty or NaN) gets the description MISSING, also
\* when the row has a usable reason code.
C7_MissingDegradesToSentinel ==
  RowCleaned =>
    /\ CodeList(TheRow.codes) = <<>> => TheResult.code = MISSING
    /\ TheRow.descs \in {NaN, <<>>} => TheResult.desc = MISSING

\* ------------------------------------------------------ normalize_prefix
\* the characters of s from position n on
From(s, n) == SubSeq(s, n, Len(s))

\* C4: a code made of PR, PI, PIB or OA followed by one or more digits is
\* returned as CO followed by exactly those digits.
C4_PrefixReplacedByCO ==
  (pc = "norm2" /\ code_in # NaN) =>
    \A p \in {<<"P", "R">>, <<"P", "I">>, <<"P", "I", "B">>, <<"O", "A">>} :
      (/\ StartsWith(code_in, p)
       /\ Len(code_in) > Len(p)
       /\ Range(From(code_in, Len(p) + 1)) \subseteq Digits)
      => code_out = <<"C", "O">> \o From(code_in, Len(p) + 1)

\* C5 as stated: normalizing twice gives what normalizing once gives, and every
\* code that starts with CO is returned unchanged.
C5_IdempotentAndCOUnchanged ==
  pc = "normdone" =>
    /\ code_out2 = code_out
    /\ StartsWith(code_in, <<"C", "O">>) => code_out = code_in

\* C5, amended: normalizing twice gives what normalizing once gives, and every
\* code that starts with CO, holds no lower-case letter and does not end in
\* whitespace is returned unchanged.
C5_IdempotentAndCleanCOUnchanged ==
  pc = "normdone" =>
    /\ code_out2 = code_out
    /\ (/\ StartsWith(code_in, <<"C", "O">>)
        /\ Range(code_in) \cap Range(LowerLetters) = {}
        /\ code_in[Len(code_in)] \notin Whitespace)
       => code_out = code_in

\* a lower-case code with a rewritten prefix, normalized twice
C5_Witness ==
  /\ pc = "normdone"
  /\ code_in = <<"O", "A", "1", "a">>
  /\ code_out = <<"C", "O", "1", "A">>
  /\ code_out2 = code_out

\* ------------------------------------------------- description resolution
\* the rows whose cleaned code is CO-prefixed and equals the code c
Canonical(c) ==
  {j \in 1..Len(cleaned) : StartsWith(cleaned[j].code, <<"C", "O">>) /\ cleaned[j].code = c}

\* C10: the final description of a row is the cleaned description of the first
\* row, in merged order, whose CO-prefixed cleaned code equals the row's
\* normalized code, and the row's own cleaned description when there is none.
C10_CanonicalDescription ==
  pc \in {"group", "pie", "done"} =>
    \A i \in 1..Len(df) :
      IF Canonical(normalized[i]) # {}
      THEN \E j \in Canonical(normalized[i]) :
              /\ \A k \in Canonical(normalized[i]) : j <= k
              /\ final_description[i] = cleaned[j].desc
      ELSE final_description[i] = cleaned[i].desc

\* two CO45 rows with different descriptions after a PR45 row: the PR45 row
\* takes the description of the first CO45 row, not its own
C10_Witness ==
  /\ pc = "group"
  /\ Len(df) = 3
  /\ cleaned[1].code = PR45 /\ cleaned[2].code = CO45 /\ cleaned[3].code = CO45
  /\ cleaned[1].desc = cleaned[3].desc /\ cleaned[2].desc # cleaned[3].desc
  /\ final_description[1] = cleaned[2].desc

\* -------------------------------------------------------------- the summary
\* the rows of the merged table in the group of summary row g
RowsOf(g) ==
  {i \in 1..Len(df) : normalized[i] = g.code /\ final_description[i] = g.desc}

\* the visit identifiers of a set of rows; an empty cell is no identifier
VisitIds(rows) == {df[i].visit : i \in rows} \ {NaN}

RECURSIVE Total(_)
Total(t) == IF t = <<>> THEN 0 ELSE t[1].claims + Total(Tail(t))

\* no visit identifier occurs in rows of two different groups
NoSharedVisit ==
  \A g, h \in Range(final_summary) : g # h => VisitIds(RowsOf(g)) \cap VisitIds(RowsOf(h)) = {}

\* C8: the summary has one row for every (normalized code, final description)
\* of the table, carrying the number of distinct visit identifiers of its rows;
\* when no identifier occurs in two groups, the counts add up to the number of
\* distinct visit identifiers of the table.
C8_DistinctClaims ==
  pc \in {"pie", "done"} =>
    /\ {<<g.code, g.desc>> : g \in Range(final_summary)}
         = {<<normalized[i], final_description[i]>> : i \in 1..Len(df)}
    /\ Cardinality(Range(final_summary)) = Len(final_summary)
    /\ \A g \in Range(final_summary) : g.claims = Cardinality(VisitIds(RowsOf(g)))
    /\ NoSharedVisit => Total(final_summary) = Cardinality(VisitIds(1..Len(df)))

\* two groups, one of them with the same visit on two rows, no visit shared
C8_Witness ==
  /\ pc = "pie"
  /\ Len(df) = 3 /\ Len(final_summary) = 2
  /\ NoSharedVisit
  /\ df[1].visit = df[2].visit /\ df[1].visit # NaN /\ df[3].visit # NaN
  /\ Total(final_summary) = 2

\* ---------------------------------------------------------------- pie chart
\* the slices of the pie chart that stand for a group, and the Others slice
GroupSlices == {final_df[i] : i \in {j \in 1..Len(final_df) : final_df[j].code # Others}}
OthersSlices == {i \in 1..Len(final_df) : final_df[i].code = Others}

RECURSIVE SumOf(_)
SumOf(S) == IF S = {} THEN 0 ELSE LET r == CHOOSE x \in S : TRUE IN r.claims + SumOf(S \ {r})

\* C9: the pie chart has an Others slice only when the summary has more than 10
\* groups; the slice then carries the sum of the counts of the groups outside
\* the 10 largest, the other slices being 10 groups no smaller than any group
\* left out.
C9_OthersSlice ==
  pc = "done" =>
    LET groups == Range(final_summary)
    IN /\ GroupSlices \subseteq groups
       /\ Cardinality(GroupSlices) = IF Len(final_summary) < 10 THEN Len(final_summary) ELSE 10
       /\ \A r \in GroupSlices : \A q \in groups \ GroupSlices : r.claims >= q.claims
       /\ Cardinality(OthersSlices) <= 1
       /\ OthersSlices # {} => Len(final_summary) > 10
       /\ \A i \in OthersSlices : final_df[i].claims = SumOf(groups \ GroupSlices)

\* eleven groups, the two smallest with one claim each: the sort put the
\* second group behind the first, so the first is the tenth slice and the
\* second is what Others holds
C9_Witness ==
  /\ pc = "done"
  /\ Len(final_summary) = 11
  /\ final_summary[10].code = GroupCode(1) /\ final_summary[11].code = GroupCode(2)
  /\ final_summary[10].claims = 1 /\ final_summary[11].claims = 1
  /\ Len(final_df) = 11
  /\ final_df[10].code = GroupCode(1)
  /\ final_df[11].code = Others /\ final_df[11].claims = 1

====
